---- MODULE Spec2Model ----
(***************************************************************************)
(* Elliptic-curve point algebra of src/src/elliptic_curves.rs (and its     *)
(* fixed-width twin src/src/elliptic_curves_bigint.rs, which is the same   *)
(* algorithm line for line): Point::new, Point + Point, Scalar * Point.    *)
(*                                                                         *)
(* The field arithmetic comes from the external finite_field crate.  It is *)
(* modelled as arithmetic modulo a prime.  What that crate does on a       *)
(* division by zero is not visible from this repository, so the model      *)
(* keeps both outcomes a prime-field library can produce: a panic          *)
(* (zeroDiv = "abort") and the Fermat quotient x * 0^(p-2) = 0             *)
(* (zeroDiv = "zero").                                                     *)
(***************************************************************************)
EXTENDS Integers, FiniteSets, Sequences, TLC

VARIABLES zeroDiv, inputs, last

vars == <<zeroDiv, inputs, last>>

-----------------------------------------------------------------------------
(* Bounds of the model *)

MaxPrime == 7

MaxCoef == 1

MaxScalar == 6

(* The toy curve of the tests: y^2 = x^3 + 7 over F_223 *)

ToyPrime == 223

ToyA == 0

ToyB == 7

(* the scalar of the test that reaches the identity on the toy curve *)

ToyScalar == 21

-----------------------------------------------------------------------------
(* finite_field::FieldElement: a (num, prime) pair with modular arithmetic *)

FE(n, p) == [num |-> n, prime |-> p]

FAdd(x, y) == FE((x.num + y.num) % x.prime, x.prime)

FSub(x, y) == FE((x.num + x.prime - y.num) % x.prime, x.prime)

FMul(x, y) == FE((x.num * y.num) % x.prime, x.prime)

RECURSIVE FPow(_, _)
FPow(x, e) ==
    IF e = 0 THEN FE(1 % x.prime, x.prime)
    ELSE IF e % 2 = 1 THEN FMul(x, FPow(x, e - 1))
    ELSE FPow(FMul(x, x), e \div 2)

(* x / y when it returns: x * y^(p-2); for y = 0 this is 0 *)
FDiv(x, y) == FMul(x, FPow(y, x.prime - 2))

(* whether x / y panics inside the field library *)
DivPanics(y) == y.num = 0 /\ zeroDiv = "abort"

-----------------------------------------------------------------------------
(* Coords, EllipticCurve, Point *)

Identity == [tag |-> "Identity"]

Some(x, y) == [tag |-> "Some", x |-> x, y |-> y]

EllipticCurve(a, b) == [a |-> a, b |-> b]

Point(coords, curve) == [coords |-> coords, curve |-> curve]

(* the outcome of a call that panicked: no point is returned *)
Abort == [tag |-> "Abort"]

(* an operand that a call does not have *)
None == [tag |-> "None"]

IsPoint(v) == v # Abort /\ v # None

(* y^2 == x^3 + a*x + b, the assert_eq! of Point::new *)
OnCurve(x, y, curve) ==
    FPow(y, 2) = FAdd(FAdd(FPow(x, 3), FMul(curve.a, x)), curve.b)

new_unchecked(coords, curve) == Point(coords, curve)

new(coords, curve) ==
    IF coords.tag = "Some" /\ ~OnCurve(coords.x, coords.y, curve)
    THEN Abort
    ELSE Point(coords, curve)

(* x1 != x2 *)
chord(x1, y1, x2, y2, curve) ==
    IF DivPanics(FSub(x2, x1)) THEN Abort
    ELSE LET s  == FDiv(FSub(y2, y1), FSub(x2, x1))
             x3 == FSub(FSub(FPow(s, 2), x1), x2)
             y3 == FSub(FMul(s, FSub(x1, x3)), y1)
         IN  new(Some(x3, y3), curve)

(* x1 == x2 && y1 == y2 *)
tangent(x1, y1, curve) ==
    IF DivPanics(FAdd(y1, y1)) THEN Abort
    ELSE LET x1sq == FPow(x1, 2)
             s  == FDiv(FAdd(FAdd(FAdd(x1sq, x1sq), x1sq), curve.a), FAdd(y1, y1))
             x3 == FSub(FSub(FPow(s, 2), x1), x1)
             y3 == FSub(FMul(s, FSub(x1, x3)), y1)
         IN  new(Some(x3, y3), curve)

add_absorbing(self, rhs) ==
    IF self.curve # rhs.curve THEN Abort
    ELSE IF self.coords.tag = "Some" /\ rhs.coords.tag = "Some"
    THEN LET x1 == self.coords.x
             y1 == self.coords.y
             x2 == rhs.coords.x
             y2 == rhs.coords.y
         IN  IF x1 # x2 THEN chord(x1, y1, x2, y2, self.curve)
             ELSE IF x1 = x2 /\ y1 = y2 THEN tangent(x1, y1, self.curve)
             ELSE new(Identity, self.curve)
    ELSE new(Identity, self.curve)

add_returns_self(self, rhs) ==
    IF self.curve # rhs.curve THEN Abort
    ELSE IF self.coords.tag = "Some"
    THEN IF rhs.coords.tag = "Some"
         THEN LET x1 == self.coords.x
                  y1 == self.coords.y
                  x2 == rhs.coords.x
                  y2 == rhs.coords.y
              IN  IF x1 # x2 THEN chord(x1, y1, x2, y2, self.curve)
                  ELSE IF x1 = x2 /\ y1 = y2 THEN tangent(x1, y1, self.curve)
                  ELSE new(Identity, self.curve)
         ELSE self
    ELSE self

add_late_check(self, rhs) ==
    IF self.coords.tag = "Some"
    THEN IF rhs.coords.tag = "Some"
         THEN IF self.curve # rhs.curve THEN Abort
              ELSE LET x1 == self.coords.x
                       y1 == self.coords.y
                       x2 == rhs.coords.x
                       y2 == rhs.coords.y
                   IN  IF x1 # x2 THEN chord(x1, y1, x2, y2, self.curve)
                       ELSE IF x1 = x2 /\ y1 = y2 THEN tangent(x1, y1, self.curve)
                       ELSE new(Identity, self.curve)
         ELSE self
    ELSE IF rhs.coords.tag = "Some" THEN rhs
         ELSE new(Identity, self.curve)

(* impl Add for Point: self + rhs, Abort when an assertion or a division panics *)
add(self, rhs) ==
    IF self.curve # rhs.curve THEN Abort
    ELSE IF self.coords.tag = "Some"
    THEN IF rhs.coords.tag = "Some"
         THEN LET x1 == self.coords.x
                  y1 == self.coords.y
                  x2 == rhs.coords.x
                  y2 == rhs.coords.y
              IN  IF x1 # x2 THEN chord(x1, y1, x2, y2, self.curve)
                  ELSE IF x1 = x2 /\ y1 = y2 THEN tangent(x1, y1, self.curve)
                  ELSE new(Identity, self.curve)
         ELSE self
    ELSE IF rhs.coords.tag = "Some" THEN rhs
         ELSE new(Identity, self.curve)

(* a panic in an operand unwinds through the enclosing expression *)
addP(p, q) == IF p = Abort \/ q = Abort THEN Abort ELSE add(p, q)

RECURSIVE mul_loop_no_test(_, _, _)
mul_loop_no_test(coef, current, result) ==
    IF ~(coef > 0) THEN result
    ELSE LET r == add(result, current)
             c == IF r = Abort THEN Abort ELSE add(current, current)
         IN  IF c = Abort THEN Abort
             ELSE mul_loop_no_test(coef \div 2, c, r)

(* the while loop of Scalar * Point *)
RECURSIVE mul_loop(_, _, _)
mul_loop(coef, current, result) ==
    IF ~(coef > 0) THEN result
    ELSE LET r == IF coef % 2 > 0 THEN add(result, current) ELSE result
             c == IF r = Abort THEN Abort ELSE add(current, current)
         IN  IF c = Abort THEN Abort
             ELSE mul_loop(coef \div 2, c, r)

mul_no_test(coef, rhs) ==
    IF ~(coef >= 0) THEN Abort
    ELSE mul_loop_no_test(coef, rhs, new(Identity, rhs.curve))

(* impl Mul<Point> for Scalar: coef * rhs *)
mul(coef, rhs) ==
    IF ~(coef >= 0) THEN Abort
    ELSE mul_loop(coef, rhs, new(Identity, rhs.curve))

-----------------------------------------------------------------------------
(* The inputs the callers draw from *)

IsPrime(p) == p > 1 /\ \A d \in 2..(p - 1) : p % d # 0

Primes == {p \in 2..MaxPrime : IsPrime(p)}

SmallCurves ==
    {EllipticCurve(FE(t[1], t[3]), FE(t[2], t[3])) : t \in
        {t \in (0..MaxCoef) \X (0..MaxCoef) \X Primes : t[1] < t[3] /\ t[2] < t[3]}}

ToyCurve == EllipticCurve(FE(ToyA, ToyPrime), FE(ToyB, ToyPrime))

(* on the toy curve: the point of scalar_mul_works, the point with y = 0, and
   one pair off the curve *)
ToyXY == {<<47, 71>>, <<6, 0>>, <<47, 72>>}

CoordInputs(curve) ==
    LET p == curve.a.prime
    IN  {Identity} \cup
        IF curve = ToyCurve
        THEN {Some(FE(t[1], p), FE(t[2], p)) : t \in ToyXY}
        ELSE {Some(FE(t[1], p), FE(t[2], p)) : t \in (0..(p - 1)) \X (0..(p - 1))}

SmallInputs == [curves |-> SmallCurves, scalars |-> 0..MaxScalar]

ToyInputs == [curves |-> {ToyCurve}, scalars |-> 0..ToyScalar]

-----------------------------------------------------------------------------
(* The caller.  It constructs its operands first, at most two as a call has at
   most two operands, then computes with what it holds: the operands and the
   result of its last call.  It is gone once a call panics. *)

Call(op, arg, lhs, rhs, coef, out) ==
    [op |-> op, arg |-> arg, lhs |-> lhs, rhs |-> rhs, coef |-> coef, out |-> out]

Held == {v \in {last.lhs, last.rhs, last.out} : IsPoint(v)}

Running == last.out # Abort

NoCall == Call("none", None, None, None, 0, None)

Init ==
    /\ zeroDiv \in {"abort", "zero"}
    /\ inputs = SmallInputs
    /\ last = NoCall

InitToy ==
    /\ zeroDiv \in {"abort", "zero"}
    /\ inputs = ToyInputs
    /\ last = NoCall

Constructing == last.op \in {"none", "new"} /\ last.lhs = None

(* let p = Point::new(coords, curve); the point constructed before stays at
   hand *)
CallNew ==
    /\ Running
    /\ Constructing
    /\ \E curve \in inputs.curves : \E coords \in CoordInputs(curve) :
          last' = Call("new", Point(coords, curve), last.out, None, 0,
                       new(coords, curve))
    /\ UNCHANGED <<zeroDiv, inputs>>

(* let r = p + q *)
CallAdd ==
    /\ Running
    /\ \E p \in Held : \E q \in Held :
          last' = Call("add", None, p, q, 0, add(p, q))
    /\ UNCHANGED <<zeroDiv, inputs>>

(* let r = Scalar(k) * p, with p the point just obtained *)
CallMul ==
    /\ IsPoint(last.out)
    /\ \E k \in inputs.scalars :
          last' = Call("mul", None, None, last.out, k, mul(k, last.out))
    /\ UNCHANGED <<zeroDiv, inputs>>

Next == CallNew \/ CallAdd \/ CallMul

Spec == Init /\ [][Next]_vars

SpecToy == InitToy /\ [][Next]_vars

-----------------------------------------------------------------------------
(* What the claims speak about *)

IsAdd == last.op = "add"

IsMul == last.op = "mul"

IsNew == last.op = "new"

Affine(p) == IsPoint(p) /\ p.coords.tag = "Some"

IdentityOn(curve) == Point(Identity, curve)

(* Identity, or Affine(x, y) with y^2 = x^3 + a*x + b in the curve's field *)
Valid(p) == p.coords.tag = "Some" => OnCurve(p.coords.x, p.coords.y, p.curve)

FNeg(y) == FSub(FE(0, y.prime), y)

(* P added to Identity k times with add *)
RECURSIVE RepeatAdd(_, _)
RepeatAdd(k, p) ==
    IF k = 0 THEN new(Identity, p.curve) ELSE addP(RepeatAdd(k - 1, p), p)

P47 == Point(Some(FE(47, ToyPrime), FE(71, ToyPrime)), ToyCurve)

(* C1: for valid points P, Q, R on one curve, y = 0 included, (P+Q)+R and
   P+(Q+R) both return and are equal.  P + Q is the call just made, R any
   point at hand on the same curve. *)
C1_Associative ==
    (IsAdd /\ last.lhs.curve = last.rhs.curve) =>
        \A r \in Held : r.curve = last.lhs.curve =>
            LET left  == addP(last.out, r)
                right == addP(last.lhs, addP(last.rhs, r))
            IN  left # Abort /\ right # Abort /\ left = right

(* C2: for a valid affine P = (x, y) and P' = (x, -y), P + P' returns
   Identity on that curve; P' = P when y = 0. *)
C2_Inverse ==
    (/\ IsAdd
     /\ Affine(last.lhs)
     /\ Affine(last.rhs)
     /\ last.lhs.curve = last.rhs.curve
     /\ last.rhs.coords.x = last.lhs.coords.x
     /\ last.rhs.coords.y = FNeg(last.lhs.coords.y))
        => last.out = IdentityOn(last.lhs.curve)

(* C3: add of two equal affine points with y = 0 returns Identity and does
   not abort. *)
C3_VerticalTangent ==
    (/\ IsAdd
     /\ Affine(last.lhs)
     /\ last.rhs = last.lhs
     /\ last.lhs.coords.y.num = 0)
        => last.out = IdentityOn(last.lhs.curve)

(* C4: P + Identity and Identity + P, with Identity on P's curve, return the
   other operand unchanged. *)
C4_IdentityNeutral ==
    (IsAdd /\ last.lhs.curve = last.rhs.curve) =>
        /\ last.rhs.coords = Identity => last.out = last.lhs
        /\ last.lhs.coords = Identity => last.out = last.rhs

C4_Witness ==
    /\ IsAdd
    /\ last.lhs.curve = last.rhs.curve
    /\ last.lhs.coords = Identity
    /\ Affine(last.rhs)
    /\ last.out = last.rhs

(* C5: for P, Q on one curve, P + Q aborts exactly when Q + P aborts, and
   when they return they are equal. *)
C5_Commutative ==
    (IsAdd /\ last.lhs.curve = last.rhs.curve) =>
        last.out = add(last.rhs, last.lhs)

C5_Witness ==
    /\ IsAdd
    /\ Affine(last.lhs)
    /\ Affine(last.rhs)
    /\ last.lhs.curve = last.rhs.curve
    /\ last.lhs.coords.x # last.rhs.coords.x
    /\ Affine(last.out)

(* C6: scale(k, P) returns what adding P to Identity k times returns,
   whenever that k-fold sum is defined. *)
C6_ScaleIsRepeatedAdd ==
    (IsMul /\ RepeatAdd(last.coef, last.rhs) # Abort) =>
        last.out = RepeatAdd(last.coef, last.rhs)

(* C7: scale(j+k, P) = scale(j, P) + scale(k, P), all three scalar
   multiplications returning. *)
C7_ScaleDistributes ==
    IsMul =>
        \A j \in 0..last.coef :
            LET sj == mul(j, last.rhs)
                sk == mul(last.coef - j, last.rhs)
            IN  /\ last.out # Abort
                /\ sj # Abort
                /\ sk # Abort
                /\ last.out = addP(sj, sk)

(* C8: add of points whose curves differ aborts, also when an operand is
   Identity. *)
C8_CurveMismatch ==
    (IsAdd /\ last.lhs.curve # last.rhs.curve) => last.out = Abort

C8_Witness ==
    /\ IsAdd
    /\ last.lhs.curve # last.rhs.curve
    /\ last.lhs.coords = Identity
    /\ last.out = Abort

(* C9: every point returned by new, add or scale is Identity or satisfies the
   curve equation; new aborts on coordinates off the curve and returns
   Identity as given. *)
C9_OnCurve ==
    /\ \A p \in Held : Valid(p)
    /\ (IsNew /\ ~Valid(last.arg)) => last.out = Abort
    /\ (IsNew /\ last.arg.coords = Identity) => last.out = last.arg

C9_Witness ==
    /\ IsAdd
    /\ Affine(last.lhs)
    /\ Affine(last.rhs)
    /\ last.lhs.coords.x = last.rhs.coords.x
    /\ Affine(last.out)
    /\ Valid(last.out)

(* C10: on the toy curve with P = (47, 71): scale(4, P) is affine,
   scale(21, P) is Identity, scale(k, P) is not Identity for 1 <= k < 21. *)
C10_OrderOfP ==
    (IsMul /\ last.rhs = P47) =>
        /\ last.coef = 4 => Affine(last.out)
        /\ last.coef = ToyScalar => last.out = IdentityOn(ToyCurve)
        /\ (1 <= last.coef /\ last.coef < ToyScalar) => last.out # IdentityOn(ToyCurve)

C10_Witness ==
    /\ IsMul
    /\ last.rhs = P47
    /\ last.coef = ToyScalar
    /\ last.out = IdentityOn(ToyCurve)

====
